---- MODULE Spec2Model ----
(***************************************************************************)
(* Paper-listing feed of routes/papers.js: the result cache, the           *)
(* recommendation fetcher, the search-event logger and the GET /papers     *)
(* handler, as one state machine.  Every await of the handler is a step    *)
(* boundary, so the handling of one request interleaves with the others.   *)
(***************************************************************************)
EXTENDS Integers, Sequences, FiniteSets, TLC

VARIABLES
    now,              \* Date.now(), in ms
    ticks,            \* clock advances left in this run
    budget,           \* requests that may still arrive in this run
    Paper,            \* the Paper table: the ids that resolve to a record
    queryCache,       \* Map in insertion order: <<[key, data, timestamp], ...>>
    recentSearchLog,  \* Map: dedupe key -> timestamp of the last send
    req,              \* per request: the handler's locals and position
    log,              \* per logSearchToRecommender call: position and outcome
    Download,         \* the Download table: rows [Paper_ID, Researcher_ID]
    Review,           \* the Review table; Review_ID is the position of the row
    det,              \* per request of the detail view or of a download/review route
    lastOp,           \* the last direct call of a cache function and its result
    written,          \* history: per key, the latest value set, when, and the
                      \* call that inserted the key; live: not removed since
    Field,            \* the Field table; Field_ID is the position of the row
    fld               \* per request of POST /fields or PUT /fields/:id

\* the state of the detail view, of its mutations and of direct cache calls
fields == <<Field, fld>>
aux == <<Download, Review, det, lastOp, written, fields>>

vars == <<now, ticks, budget, Paper, queryCache, recentSearchLog, req, log,
          Download, Review, det, lastOp, written, Field, fld>>

-----------------------------------------------------------------------------
(* Bounds of the model *)

MaxReq == 2
MaxLog == 3
MaxTicks == 2
RankLen == 45
MaxDet == 3
MaxOps == 3
MaxFld == 2

Reqs == 1..MaxReq
Dets == 1..MaxDet
Tasks == 1..MaxLog

(* Program constants *)

CACHE_TTL == 60000
LOG_DEDUPE_TTL == 30000
CACHE_MAX == 200
DefaultPage == 1
DefaultLimit == 12

-----------------------------------------------------------------------------
(* JavaScript values *)

Undefined == "<undefined>"
Null == "<null>"

Truthy(s) == s \notin {Undefined, Null, ""}

Min(a, b) == IF a < b THEN a ELSE b
Max(a, b) == IF a > b THEN a ELSE b

\* Array.prototype.slice(start, end): negative indices count from the end.
Slice(a, start, end) ==
    LET n == Len(a)
        s == IF start < 0 THEN Max(n + start, 0) ELSE Min(start, n)
        e == IF end < 0 THEN Max(n + end, 0) ELSE Min(end, n)
    IN  IF e > s THEN SubSeq(a, s + 1, e) ELSE <<>>

\* Math.ceil(a / b) for b # 0
Ceil(a, b) ==
    LET n == IF b < 0 THEN 0 - a ELSE a
        d == IF b < 0 THEN 0 - b ELSE b
    IN  0 - ((0 - n) \div d)

\* parseInt(x, 10) || dflt, on the parsed number; 0 stands for every falsy
\* result (0, and the NaN of an absent or non-numeric parameter)
ParseOr(x, dflt) == IF x = 0 THEN dflt ELSE x

Range(f) == {f[i] : i \in DOMAIN f}

-----------------------------------------------------------------------------
(* Identity: the bearer credential of a request *)

\* req.headers['authorization'] as its space-separated words; <<>> is no header
AuthHeaders == {<<>>, <<"Bearer">>, <<"Bearer", "bad">>,
                <<"Bearer", "t1">>, <<"Bearer", "t2">>}

\* jwt.verify(token, secret): the decoded userId, or Null when it throws
JwtVerify(token) ==
    CASE token = "t1" -> "u1"
      [] token = "t2" -> "u2"
      [] OTHER -> Null

\* authHeader.split(' ')[1]
TokenOf(h) == IF Len(h) >= 2 THEN h[2] ELSE Undefined

\* mutant: the token is taken for the user id without verification
HeaderUserUnverified(h) == IF Len(h) >= 2 THEN h[2] ELSE Null

\* the userId both the logging IIFE and the recommendation attempt resolve
HeaderUser(h) ==
    IF Len(h) = 0 THEN Null
    ELSE IF Truthy(JwtVerify(TokenOf(h))) THEN JwtVerify(TokenOf(h)) ELSE Null

\* req.user: set by authenticateToken only, which GET / does not use
ReqUser(h) == Undefined

-----------------------------------------------------------------------------
(* Result cache *)

\* JSON values of the parameter object, as JSON.stringify writes them
JsonNum(n) == <<"num", ToString(n)>>
JsonStr(s) == IF s = Undefined THEN <<"undefined", "">> ELSE <<"str", s>>

\* getCacheKey: JSON.stringify of the parameter object; a property whose value
\* is undefined is left out of the text
getCacheKey(params) ==
    SelectSeq(params, LAMBDA kv : kv[2][1] # "undefined")

\* the parameter object of the listing handler
ListingParams(page, limit, fieldId, search, h) ==
    << <<"page", JsonNum(page)>>, <<"limit", JsonNum(limit)>>,
       <<"fieldId", JsonStr(fieldId)>>, <<"search", JsonStr(search)>>,
       <<"userId", JsonStr(IF ReqUser(h) # Undefined THEN ReqUser(h) ELSE "anon")>> >>

CacheIndex(cache, key) ==
    IF \E i \in 1..Len(cache) : cache[i].key = key
    THEN CHOOSE i \in 1..Len(cache) : cache[i].key = key
    ELSE 0

RemoveAt(s, i) == SubSeq(s, 1, i - 1) \o SubSeq(s, i + 1, Len(s))

\* mutant: an entry is still served when exactly CACHE_TTL old
CacheValidInclusive(cache, key, t) ==
    LET i == CacheIndex(cache, key)
    IN  i # 0 /\ t - cache[i].timestamp <= CACHE_TTL

\* getCachedQuery: whether it returns the stored data (present and unexpired)
CacheValid(cache, key, t) ==
    LET i == CacheIndex(cache, key)
    IN  i # 0 /\ t - cache[i].timestamp < CACHE_TTL

\* getCachedQuery: the data it returns when CacheValid
CachedData(cache, key) == cache[CacheIndex(cache, key)].data

\* mutant: a read that returns the data also renews the entry's timestamp
CacheAfterGetTouch(cache, key, t) ==
    LET i == CacheIndex(cache, key)
    IN  IF i = 0 THEN cache
        ELSE IF t - cache[i].timestamp < CACHE_TTL
        THEN [cache EXCEPT ![i].timestamp = t]
        ELSE RemoveAt(cache, i)

\* getCachedQuery: the cache it leaves (an expired entry is deleted)
CacheAfterGet(cache, key, t) ==
    LET i == CacheIndex(cache, key)
    IN  IF i # 0 /\ ~(t - cache[i].timestamp < CACHE_TTL)
        THEN RemoveAt(cache, i) ELSE cache

\* mutant: Map.set as an append, whether or not the key is there
MapSetAppend(cache, key, entry) == Append(cache, entry)

\* Map.set: an existing key keeps its place in the insertion order
MapSet(cache, key, entry) ==
    LET i == CacheIndex(cache, key)
    IN  IF i = 0 THEN Append(cache, entry)
        ELSE [cache EXCEPT ![i] = entry]

\* mutant: the entry written to longest ago is evicted
setCachedQueryOldestWrite(cache, key, data, t) ==
    LET c == MapSet(cache, key, [key |-> key, data |-> data, timestamp |-> t])
        i == CHOOSE x \in 1..Len(c) :
                 /\ \A y \in 1..Len(c) : c[x].timestamp <= c[y].timestamp
                 /\ \A y \in 1..(x - 1) : c[y].timestamp > c[x].timestamp
    IN  IF Len(c) > CACHE_MAX THEN RemoveAt(c, i) ELSE c

setCachedQuery(cache, key, data, t) ==
    LET c == MapSet(cache, key, [key |-> key, data |-> data, timestamp |-> t])
    IN  IF Len(c) > CACHE_MAX THEN Tail(c) ELSE c

\* queryCache.delete(key)
CacheDelete(cache, key) == SelectSeq(cache, LAMBDA e : e.key # key)

\* getCacheKey({ paperId }): the key of a paper's detail view
DetailKey(paperId) == getCacheKey(<< <<"paperId", JsonStr(paperId)>> >>)

-----------------------------------------------------------------------------
(* The item store: the two access patterns of the listing handler *)

PaperIds == 1..RankLen

\* the corpora a run may start from: every id resolves, or id 9 was deleted
Corpora == {PaperIds, PaperIds \ {9}}

\* p.Field_ID of a paper, p.Title/p.Abstract LIKE '%search%'
FieldOf(p) == IF p % 2 = 0 THEN "1" ELSE "2"
Matches(p, search) == p % 3 = 0

\* ORDER BY p.Publication_Date DESC: a newer paper has the larger id
Chrono == [i \in 1..RankLen |-> RankLen + 1 - i]

\* WHERE 1=1 [AND p.Field_ID = @fieldId] [AND (... LIKE @search ...)]
Filtered(P, fieldId, search) ==
    SelectSeq(Chrono, LAMBDA p :
        /\ p \in P
        /\ (Truthy(fieldId) => FieldOf(p) = fieldId)
        /\ (Truthy(search) => Matches(p, search)))

\* OFFSET @offset ROWS FETCH NEXT @limit ROWS ONLY is an error of the store
\* for a negative offset or a row count below 1
StandardQueryFails(offset, limit) == offset < 0 \/ limit < 1

StandardPage(P, fieldId, search, offset, limit) ==
    LET f == Filtered(P, fieldId, search)
    IN  IF offset >= Len(f) THEN <<>>
        ELSE SubSeq(f, offset + 1, Min(offset + limit, Len(f)))

\* SELECT COUNT(*) ... WHERE the same filters
CountTotal(P, fieldId, search) == Len(Filtered(P, fieldId, search))

\* WHERE p.Paper_ID IN (@id_0, ...): the ids of the slice that resolve
Resolved(P, pagedIds) == Range(pagedIds) \cap P

Asc(S) == SelectSeq([i \in 1..RankLen |-> i], LAMBDA p : p \in S)
Desc(S) == SelectSeq(Chrono, LAMBDA p : p \in S)

Perms(S) ==
    {f \in [1..Cardinality(S) -> S] : \A i, j \in DOMAIN f : i # j => f[i] # f[j]}

\* the orders the store may return the rows of the IN query in: no ORDER BY,
\* so any order; every order of a small set, two orders of a larger one
RecordsetOrders(S) ==
    IF Cardinality(S) <= 3 THEN Perms(S) ELSE {Asc(S), Desc(S)}

-----------------------------------------------------------------------------
(* Outbound calls *)

\* what the recommender may answer to GET /recommend
Ranked45 == [i \in 1..RankLen |-> ((i * 7) % RankLen) + 1]

\* const maxRecs = 50: the top_n the handler asks the recommender for
maxRecs == 50

\* a recommender that answers with one id more than the top_n it was asked for
RankedOver == [i \in 1..(maxRecs + 1) |-> ((i * 7) % RankLen) + 1]

RecLists == {<<>>, <<3, 9, 7>>, <<5, 8, 2, 1>>, Ranked45, RankedOver}
\* kind: the fetch rejected (network error, abort at the timeout), a
\* non-success status, a body that is no JSON, JSON without a recommendations
\* list, or a list; ids: the list a body carries (an error body may carry one)
RecReplies ==
    {[kind |-> k, ids |-> <<>>] : k \in {"network", "status", "badjson", "nolist"}}
    \cup {[kind |-> "status", ids |-> <<5, 8, 2, 1>>]}
    \cup {[kind |-> "list", ids |-> l] : l \in RecLists}

\* what the analytics sink may answer to POST /interaction/search
SinkReplies == {"ok", "status", "network"}

\* callFetch: ok iff the fetch resolved with a success status; a rejected
\* fetch (network error, abort on timeout) is caught and returned as not ok
callFetch(kind) == [ok |-> kind \notin {"network", "status"}]

\* mutant: the body is read whatever the status
getRecommendationsAnyStatus(reply) ==
    IF reply.kind \in {"badjson", "nolist"} THEN <<>> ELSE reply.ids

\* getRecommendations: the id list it returns for a reply
getRecommendations(reply) ==
    IF ~callFetch(reply.kind).ok THEN <<>>
    ELSE IF reply.kind \in {"badjson", "nolist"} THEN <<>>
    ELSE reply.ids

-----------------------------------------------------------------------------
(* Search-event logger *)

\* `${userId || 'anon'}::${query}`
makeDedupeKey(userId, query) ==
    <<IF Truthy(userId) THEN userId ELSE "anon", query>>

FreeTask ==
    [pc |-> "free", key |-> <<"", "">>, startedAt |-> 0, calls |-> 0,
     replies |-> <<>>, outcome |-> "none", purgeAt |-> 0, purged |-> FALSE,
     user_id |-> Null]

\* recentSearchLog.get(dedupeKey); 0 stands for undefined
LastSent(rsl, key) == IF key \in DOMAIN rsl THEN rsl[key] ELSE 0

\* mutant: the window closed one millisecond late
DedupeHitInclusive(last, t) == last # 0 /\ (t - last) <= LOG_DEDUPE_TTL

\* last && (Date.now() - last) < LOG_DEDUPE_TTL
DedupeHit(last, t) == last # 0 /\ (t - last) < LOG_DEDUPE_TTL

MapPut(m, k, v) == [x \in DOMAIN m \cup {k} |-> IF x = k THEN v ELSE m[x]]

\* the delay of the cleanup timer armed in the finally block
PurgeDelay == LOG_DEDUPE_TTL * 2

\* mutant: the cleanup deletes whatever was sent before it runs
PurgeCutoffNow(t) == t

\* the cutoff of the cleanup: entries sent before it are deleted
PurgeCutoff(t) == t - (LOG_DEDUPE_TTL * 4)

\* logSearchToRecommender up to its first await: the dedupe check, the
\* recording of the send time and the first callFetch, with nothing in between
LogStartTask(rsl, userId, query, t) ==
    LET key == makeDedupeKey(userId, query)
    IN  IF DedupeHit(LastSent(rsl, key), t)
        THEN [FreeTask EXCEPT !.pc = "done", !.key = key, !.startedAt = t,
                              !.outcome = "skipped", !.purgeAt = t + PurgeDelay]
        ELSE [FreeTask EXCEPT !.pc = "fetch1", !.key = key, !.startedAt = t,
                              !.calls = 1,
                              !.user_id = IF Truthy(userId) THEN userId ELSE Null]

\* mutant: the send time is not recorded before the first await
LogStartMapLate(rsl, userId, query, t) == rsl

LogStartMap(rsl, userId, query, t) ==
    LET key == makeDedupeKey(userId, query)
    IN  IF DedupeHit(LastSent(rsl, key), t) THEN rsl ELSE MapPut(rsl, key, t)

\* mutant: no retry after a failed first attempt
AfterFirstNoRetry(task, reply, t) ==
    [task EXCEPT !.pc = "done", !.purgeAt = t + PurgeDelay,
                 !.replies = Append(@, reply),
                 !.outcome = IF callFetch(reply).ok THEN "ok" ELSE "failed"]

\* the outcome of the first delivery attempt
AfterFirst(task, reply, t) ==
    IF callFetch(reply).ok
    THEN [task EXCEPT !.pc = "done", !.outcome = "ok", !.purgeAt = t + PurgeDelay,
                      !.replies = Append(@, reply)]
    ELSE [task EXCEPT !.pc = "fetch2", !.calls = @ + 1, !.replies = Append(@, reply)]

\* the outcome of the retry
AfterRetry(task, reply, t) ==
    [task EXCEPT !.pc = "done", !.purgeAt = t + PurgeDelay,
                 !.replies = Append(@, reply),
                 !.outcome = IF callFetch(reply).ok THEN "retried" ELSE "failed"]

\* a caller of logSearchToRecommender other than the listing handler
\* (GET /search/query logs every request that carries a query)
LogSearch(t, userId, query) ==
    /\ log[t].pc = "free"
    /\ \A u \in Tasks : u < t => log[u].pc # "free"
    /\ log' = [log EXCEPT ![t] = LogStartTask(recentSearchLog, userId, query, now)]
    /\ recentSearchLog' = LogStartMap(recentSearchLog, userId, query, now)
    /\ UNCHANGED <<aux, now, ticks, budget, Paper, queryCache, req>>

\* mutant: a call whose retry failed takes its send time back
SinkReplyForgets(t, reply) ==
    /\ log[t].pc \in {"fetch1", "fetch2"}
    /\ log' = [log EXCEPT ![t] =
                 IF log[t].pc = "fetch1" THEN AfterFirst(log[t], reply, now)
                 ELSE AfterRetry(log[t], reply, now)]
    /\ recentSearchLog' =
         IF log[t].pc = "fetch2" /\ ~callFetch(reply).ok
         THEN [k \in DOMAIN recentSearchLog \ {log[t].key} |-> recentSearchLog[k]]
         ELSE recentSearchLog
    /\ UNCHANGED <<aux, now, ticks, budget, Paper, queryCache, req>>

\* the sink answers (or the fetch fails or is aborted) for a pending attempt
SinkReply(t, reply) ==
    /\ log[t].pc \in {"fetch1", "fetch2"}
    /\ log' = [log EXCEPT ![t] =
                 IF log[t].pc = "fetch1" THEN AfterFirst(log[t], reply, now)
                 ELSE AfterRetry(log[t], reply, now)]
    /\ UNCHANGED <<aux, now, ticks, budget, Paper, queryCache, recentSearchLog, req>>

\* the cleanup timer of a finished call fires
Purge(t) ==
    /\ log[t].pc = "done"
    /\ ~log[t].purged
    /\ now >= log[t].purgeAt
    /\ recentSearchLog' =
         [k \in {x \in DOMAIN recentSearchLog :
                    ~(recentSearchLog[x] < PurgeCutoff(now))} |-> recentSearchLog[k]]
    /\ log' = [log EXCEPT ![t].purged = TRUE]
    /\ UNCHANGED <<aux, now, ticks, budget, Paper, queryCache, req>>

\* time passes
TickSteps == {1, LOG_DEDUPE_TTL - 1, CACHE_TTL - 1, (LOG_DEDUPE_TTL * 4) + 1}

Tick(d) ==
    /\ ticks > 0
    /\ now' = now + d
    /\ ticks' = ticks - 1
    /\ UNCHANGED <<aux, budget, Paper, queryCache, recentSearchLog, req, log>>

-----------------------------------------------------------------------------
(* GET /papers *)

\* the query strings and credentials requests arrive with; page and limit are
\* what parseInt yields (0: absent or not a number)
PageLimits == {<<0, 0>>, <<1, 20>>, <<3, 20>>, <<4, 20>>, <<1, 2>>, <<2, 2>>,
               <<0 - 1, 20>>, <<1, 0 - 5>>}
FieldInputs == {Undefined, "1"}
SearchInputs == {Undefined, "q"}

NoResp ==
    [status |-> 0, success |-> FALSE, message |-> "", hasData |-> FALSE,
     papers |-> <<>>, page |-> 0, limit |-> 0, total |-> 0, pages |-> 0,
     flag |-> "absent"]

\* res.status(500).json({success: false, message, data: null})
Error500 ==
    [NoResp EXCEPT !.status = 500, !.message = "Failed to retrieve papers"]

\* the response of the end-of-list branch: its data has no isRecommendation
EndOfListResponse(page, limit, recIds) ==
    [status |-> 200, success |-> TRUE, message |-> "Papers retrieved successfully",
     hasData |-> TRUE, papers |-> <<>>, page |-> page, limit |-> limit,
     total |-> Len(recIds), pages |-> Ceil(Len(recIds), limit), flag |-> "absent"]

\* the response built after the queries
ListResponse(papers, page, limit, total, isRec) ==
    [status |-> 200, success |-> TRUE,
     message |-> IF isRec THEN "Recommended papers retrieved"
                 ELSE "Papers retrieved successfully",
     hasData |-> TRUE, papers |-> papers, page |-> page, limit |-> limit,
     total |-> total, pages |-> Ceil(total, limit),
     flag |-> IF isRec THEN "true" ELSE "false"]

IdleReq ==
    [pc |-> "idle", page |-> 0, limit |-> 0, fieldId |-> Undefined,
     search |-> Undefined, auth |-> <<>>, key |-> <<>>, hit |-> FALSE,
     task |-> 0, recCalls |-> 0, recKind |-> "none", recIds |-> <<>>,
     isRec |-> FALSE, recordset |-> <<>>, papers |-> <<>>, queries |-> 0,
     storeErr |-> FALSE,
     after |-> {},    \* history: the requests already answered at arrival
     recUser |-> Undefined,
     resp |-> NoResp]

\* mutant: pages counted from 0
OffsetFromZero(q) == q.page * q.limit

Offset(q) == (q.page - 1) * q.limit

\* recommendedPaperIds.slice(offset, offset + limit)
PagedIds(q) == Slice(q.recIds, Offset(q), Offset(q) + q.limit)

\* mutant: the rows are kept in the order the store returned them
ReorderStoreOrder(pagedIds, rows) == rows

\* papers = pagedIds.map(id => paperMap.get(id)).filter(p => p)
Reorder(pagedIds, rows) == SelectSeq(pagedIds, LAMBDA id : id \in Range(rows))

\* mutant: the handler awaits the IIFE
AwaitsLogJoined(q) == TRUE

\* whether the search-log IIFE is joined before the handler goes on: it is
\* called and dropped, so the handler never waits for it
AwaitsLog(q) == FALSE

LogSettled(q) == IF q.task = 0 THEN TRUE ELSE log[q.task].pc = "done"

\* the handler is at await getPool()
AtPool(r) ==
    /\ req[r].pc = "pool"
    /\ AwaitsLog(req[r]) => LogSettled(req[r])

\* mutant: the field filter is not looked at
ForYouAnyField(q) == ~Truthy(q.search)

\* if (!search && !fieldId): the "For You" attempt
ForYou(q) == ~Truthy(q.search) /\ ~Truthy(q.fieldId)

FirstFree == CHOOSE t \in Tasks : log[t].pc = "free" /\ \A u \in Tasks : u < t => log[u].pc # "free"

\* mutant: an empty slice always falls back to the standard page
EndOfListNever(q) == FALSE

\* pagedIds.length === 0 on a page other than 1: the end-of-list branch
EndOfList(q) == Len(PagedIds(q)) = 0 /\ q.page # 1

\* a request arrives: parameters, cache lookup, search log, then await getPool()
GetPapers(r, pl, fieldId, search, h) ==
    LET page == ParseOr(pl[1], DefaultPage)
        limit == ParseOr(pl[2], DefaultLimit)
        key == getCacheKey(ListingParams(page, limit, fieldId, search, h))
        q == [IdleReq EXCEPT !.page = page, !.limit = limit, !.fieldId = fieldId,
                             !.search = search, !.auth = h, !.key = key,
                             !.after = {o \in Reqs : req[o].pc = "done"}]
    IN  /\ budget > 0
        /\ req[r].pc = "idle"
        /\ \A o \in Reqs : o < r => req[o].pc # "idle"
        /\ budget' = budget - 1
        /\ IF CacheValid(queryCache, key, now)
           THEN /\ req' = [req EXCEPT ![r] =
                      [q EXCEPT !.pc = "done", !.hit = TRUE,
                                !.resp = CachedData(queryCache, key)]]
                /\ queryCache' = CacheAfterGet(queryCache, key, now)
                /\ UNCHANGED <<log, recentSearchLog>>
           ELSE /\ queryCache' = CacheAfterGet(queryCache, key, now)
                /\ IF Truthy(search)
                   THEN /\ \E t \in Tasks : log[t].pc = "free"
                        /\ log' = [log EXCEPT ![FirstFree] =
                              LogStartTask(recentSearchLog, HeaderUser(h), search, now)]
                        /\ recentSearchLog' =
                              LogStartMap(recentSearchLog, HeaderUser(h), search, now)
                        /\ req' = [req EXCEPT ![r] =
                              [q EXCEPT !.pc = "pool", !.task = FirstFree]]
                   ELSE /\ req' = [req EXCEPT ![r] = [q EXCEPT !.pc = "pool"]]
                        /\ UNCHANGED <<log, recentSearchLog>>
        /\ UNCHANGED <<aux, now, ticks, Paper>>

\* mutant: the catch stores the error response under the request's key
FailCached(r) ==
    /\ req' = [req EXCEPT ![r].pc = "done", ![r].storeErr = TRUE, ![r].resp = Error500]
    /\ queryCache' = setCachedQuery(queryCache, req[r].key, Error500, now)
    /\ UNCHANGED <<aux, now, ticks, budget, Paper, recentSearchLog, log>>

\* the handler's catch: any store error ends the request with a 500
Fail(r) ==
    /\ req' = [req EXCEPT ![r].pc = "done", ![r].storeErr = TRUE, ![r].resp = Error500]
    /\ UNCHANGED <<aux, now, ticks, budget, Paper, queryCache, recentSearchLog, log>>

\* getPool() rejects
PoolFail(r) ==
    /\ AtPool(r)
    /\ Fail(r)

\* mutant: the record query is sent without asking the recommender
PoolOkQueryFirst(r) ==
    /\ AtPool(r)
    /\ req' = [req EXCEPT ![r].pc = "query", ![r].queries = @ + 1]
    /\ UNCHANGED <<aux, now, ticks, budget, Paper, queryCache, recentSearchLog, log>>

\* getPool() resolves: the recommendation attempt, or the standard query
PoolOk(r) ==
    /\ AtPool(r)
    /\ req' = [req EXCEPT ![r] =
          IF ForYou(req[r])
          THEN [@ EXCEPT !.pc = "recs", !.recCalls = @ + 1,
                         !.recUser = HeaderUser(req[r].auth)]
          ELSE [@ EXCEPT !.pc = "query", !.queries = @ + 1]]
    /\ UNCHANGED <<aux, now, ticks, budget, Paper, queryCache, recentSearchLog, log>>

\* getRecommendations() resolves: mode decision, slice, and the next query
RecsReply(r, reply) ==
    LET recIds == getRecommendations(reply)
        q == [req[r] EXCEPT !.recKind = reply.kind,
                            !.recIds = IF Len(recIds) > 0 THEN recIds ELSE <<>>,
                            !.isRec = Len(recIds) > 0]
    IN  /\ req[r].pc = "recs"
        /\ IF q.isRec /\ EndOfList(q)
           THEN /\ req' = [req EXCEPT ![r] =
                      [q EXCEPT !.pc = "done",
                                !.resp = EndOfListResponse(q.page, q.limit, q.recIds)]]
                /\ queryCache' = setCachedQuery(queryCache, q.key,
                      EndOfListResponse(q.page, q.limit, q.recIds), now)
           ELSE /\ req' = [req EXCEPT ![r] =
                      [q EXCEPT !.pc = "query", !.queries = @ + 1,
                                !.isRec = q.isRec /\ Len(PagedIds(q)) # 0]]
                /\ UNCHANGED queryCache
        /\ UNCHANGED <<aux, now, ticks, budget, Paper, recentSearchLog, log>>

\* request.query(querySql) rejects
QueryFail(r) ==
    /\ req[r].pc = "query"
    /\ Fail(r)

\* request.query(querySql) resolves with the rows of the id slice, in any
\* order: reorder, total, response, cache write
QueryIds(r, rows) ==
    LET q == req[r]
        papers == Reorder(PagedIds(q), rows)
        resp == ListResponse(papers, q.page, q.limit, Len(q.recIds), TRUE)
    IN  /\ q.pc = "query"
        /\ q.isRec
        /\ req' = [req EXCEPT ![r] = [q EXCEPT !.pc = "done", !.recordset = rows,
                                                !.papers = papers, !.resp = resp]]
        /\ queryCache' = setCachedQuery(queryCache, q.key, resp, now)
        /\ UNCHANGED <<aux, now, ticks, budget, Paper, recentSearchLog, log>>

\* request.query(querySql) resolves with the standard page; then the count
QueryStandard(r) ==
    LET q == req[r]
    IN  /\ q.pc = "query"
        /\ ~q.isRec
        /\ ~StandardQueryFails(Offset(q), q.limit)
        /\ req' = [req EXCEPT ![r] =
              [q EXCEPT !.pc = "count",
                        !.papers = StandardPage(Paper, q.fieldId, q.search,
                                                Offset(q), q.limit)]]
        /\ UNCHANGED <<aux, now, ticks, budget, Paper, queryCache, recentSearchLog, log>>

\* countRequest.query(countQuery) rejects
CountFail(r) ==
    /\ req[r].pc = "count"
    /\ Fail(r)

\* countRequest.query(countQuery) resolves: response, cache write
CountOk(r) ==
    LET q == req[r]
        resp == ListResponse(q.papers, q.page, q.limit,
                             CountTotal(Paper, q.fieldId, q.search), FALSE)
    IN  /\ q.pc = "count"
        /\ req' = [req EXCEPT ![r] = [q EXCEPT !.pc = "done", !.resp = resp]]
        /\ queryCache' = setCachedQuery(queryCache, q.key, resp, now)
        /\ UNCHANGED <<aux, now, ticks, budget, Paper, recentSearchLog, log>>

-----------------------------------------------------------------------------
(* GET /papers/:id and the routes that record a download or a review *)

\* the ids requests name (9 resolves to no paper in this run), the ratings a
\* body carries (0: none) and the review ids of PUT /reviews/:id
DetailIds == {7, 9}
Ratings == {0, 4}
ReviewIds == {1, 2}

\* req.user.userId, as set by authenticateToken, and the Researcher table
DetUser == "u1"
Researchers == {"u1", "u2"}

GetPaper == "GET /papers/:id"
PostDownload == "POST /papers/:id/download"
PostReview == "POST /papers/:id/review"
InterDownloads == "POST /interactions/downloads"
InterReviews == "POST /interactions/reviews"
InterPutReview == "PUT /interactions/reviews/:id"

\* the requests that may arrive: route, paper id (0: none in the body),
\* rating, review id
DetInputs ==
    {[route |-> GetPaper, paperId |-> p, rating |-> 0, reviewId |-> 0] : p \in DetailIds}
    \cup {[route |-> PostDownload, paperId |-> p, rating |-> 0, reviewId |-> 0] :
             p \in DetailIds}
    \cup {[route |-> PostReview, paperId |-> p, rating |-> g, reviewId |-> 0] :
             p \in DetailIds, g \in Ratings}
    \cup {[route |-> InterDownloads, paperId |-> p, rating |-> 0, reviewId |-> 0] :
             p \in {0, 7}}
    \cup {[route |-> InterReviews, paperId |-> p, rating |-> g, reviewId |-> 0] :
             p \in {0, 7}, g \in Ratings}
    \cup {[route |-> InterPutReview, paperId |-> 0, rating |-> g, reviewId |-> i] :
             i \in ReviewIds, g \in Ratings}

NoPaper == [Paper_ID |-> 0, Download_Count |-> 0, Rating_Sum |-> 0, Review_Count |-> 0]

NoDetResp ==
    [status |-> 0, success |-> FALSE, message |-> "", hasData |-> FALSE,
     paper |-> NoPaper, reviews |-> {}]

\* res.status(s).json({success: false, message, data: null})
DetError(status, message) == [NoDetResp EXCEPT !.status = status, !.message = message]

\* the success response of a mutation
DetOk(status, message, hasData) ==
    [NoDetResp EXCEPT !.status = status, !.success = TRUE, !.message = message,
                      !.hasData = hasData]

\* the success response of the detail view: data: {...paper, authors,
\* keywords, reviews}
PaperResponse(paper, reviews) ==
    [status |-> 200, success |-> TRUE, message |-> "Paper retrieved successfully",
     hasData |-> TRUE, paper |-> paper, reviews |-> reviews]

\* the message of each route's catch
FailMessage(route) ==
    CASE route = GetPaper -> "Failed to retrieve paper"
      [] route \in {PostDownload, InterDownloads} -> "Failed to record download"
      [] route \in {PostReview, InterReviews} -> "Failed to submit review"
      [] OTHER -> "Failed to update review"

\* SELECT COUNT(*) FROM [Download] WHERE Paper_ID = p.Paper_ID
DownloadCount(D, p) == Cardinality({i \in 1..Len(D) : D[i].Paper_ID = p})

\* the Review_IDs of the reviews of a paper
ReviewRows(R, p) == {i \in 1..Len(R) : R[i].Paper_ID = p}

RECURSIVE RatingSum(_, _)
RatingSum(R, rows) ==
    IF rows = {} THEN 0
    ELSE LET i == CHOOSE x \in rows : TRUE
         IN  R[i].Rating + RatingSum(R, rows \ {i})

\* the row of the paper query: Average_Rating is Rating_Sum / Review_Count
PaperRow(D, R, p) ==
    [Paper_ID |-> p, Download_Count |-> DownloadCount(D, p),
     Rating_Sum |-> RatingSum(R, ReviewRows(R, p)),
     Review_Count |-> Cardinality(ReviewRows(R, p))]

\* the rows of the reviews query of Promise.all (the order, by Review_Date,
\* is left out)
ReviewsOf(R, p) ==
    {[Review_ID |-> i, Rating |-> R[i].Rating, Researcher_ID |-> R[i].Researcher_ID] :
        i \in ReviewRows(R, p)}

\* existingReview.recordset[0].Review_ID, 0 when the recordset is empty; rows
\* come in primary-key order
ExistingReview(R, p, u) ==
    LET rows == {i \in ReviewRows(R, p) : R[i].Researcher_ID = u}
    IN  IF rows = {} THEN 0 ELSE CHOOSE i \in rows : \A j \in rows : i <= j

\* !rating || rating < 1 || rating > 5
BadRating(rating) == rating = 0 \/ rating < 1 \/ rating > 5

IdleDet ==
    [pc |-> "idle", route |-> "", paperId |-> 0, rating |-> 0, reviewId |-> 0,
     key |-> <<>>, hit |-> FALSE, paper |-> NoPaper, target |-> 0,
     after |-> {},    \* history: the requests already answered at arrival
     resp |-> NoDetResp]

\* the synchronous validation of a route's body: the 400 it answers, or
\* NoDetResp when the handler goes on to await getPool()
Validate(in) ==
    CASE in.route \in {PostReview, InterPutReview} ->
            IF BadRating(in.rating)
            THEN DetError(400, IF in.route = PostReview
                               THEN "Rating must be between 1 and 5"
                               ELSE "Valid rating (1-5) is required")
            ELSE NoDetResp
      [] in.route = InterDownloads ->
            IF in.paperId = 0 THEN DetError(400, "Paper ID is required") ELSE NoDetResp
      [] in.route = InterReviews ->
            IF in.paperId = 0 \/ in.rating = 0
            THEN DetError(400, "Paper ID and rating are required")
            ELSE IF in.rating < 1 \/ in.rating > 5
            THEN DetError(400, "Rating must be between 1 and 5")
            ELSE NoDetResp
      [] OTHER -> NoDetResp

\* a request arrives: the detail view looks in the cache, a mutation checks
\* its body; then await getPool()
DetArrive(d, in) ==
    LET key == DetailKey(ToString(in.paperId))
        q == [IdleDet EXCEPT !.route = in.route, !.paperId = in.paperId,
                             !.rating = in.rating, !.reviewId = in.reviewId,
                             !.key = key,
                             !.after = {o \in Dets : det[o].pc = "done"}]
    IN  /\ det[d].pc = "idle"
        /\ \A o \in Dets : o < d => det[o].pc # "idle"
        /\ IF in.route = GetPaper
           THEN IF CacheValid(queryCache, key, now)
                THEN /\ det' = [det EXCEPT ![d] =
                           [q EXCEPT !.pc = "done", !.hit = TRUE,
                                     !.resp = CachedData(queryCache, key)]]
                     /\ UNCHANGED queryCache
                ELSE /\ det' = [det EXCEPT ![d] = [q EXCEPT !.pc = "pool"]]
                     /\ queryCache' = CacheAfterGet(queryCache, key, now)
           ELSE /\ det' = [det EXCEPT ![d] =
                      IF Validate(in) # NoDetResp
                      THEN [q EXCEPT !.pc = "done", !.resp = Validate(in)]
                      ELSE [q EXCEPT !.pc = "pool"]]
                /\ UNCHANGED queryCache
        /\ UNCHANGED <<fields, now, ticks, budget, Paper, recentSearchLog, req, log,
                       Download, Review, lastOp, written>>

\* an await of the handler rejects: the catch answers 500
DetFail(d) ==
    /\ det[d].pc \in {"pool", "paper", "related", "check", "existing", "write"}
    /\ det' = [det EXCEPT ![d].pc = "done",
                          ![d].resp = DetError(500, FailMessage(det[d].route))]
    /\ UNCHANGED <<fields, now, ticks, budget, Paper, queryCache, recentSearchLog, req, log,
                   Download, Review, lastOp, written>>

\* getPool() resolves and the first query is sent
DetPoolOk(d) ==
    /\ det[d].pc = "pool"
    /\ det' = [det EXCEPT ![d].pc =
          CASE det[d].route = GetPaper -> "paper"
            [] det[d].route = InterReviews -> "write"
            [] OTHER -> "check"]
    /\ UNCHANGED <<fields, now, ticks, budget, Paper, queryCache, recentSearchLog, req, log,
                   Download, Review, lastOp, written>>

\* the paper query of the detail view resolves: 404, or on to Promise.all
DetPaperOk(d) ==
    /\ det[d].pc = "paper"
    /\ det' = [det EXCEPT ![d] =
          IF det[d].paperId \notin Paper
          THEN [@ EXCEPT !.pc = "done", !.resp = DetError(404, "Paper not found")]
          ELSE [@ EXCEPT !.pc = "related",
                         !.paper = PaperRow(Download, Review, det[d].paperId)]]
    /\ UNCHANGED <<fields, now, ticks, budget, Paper, queryCache, recentSearchLog, req, log,
                   Download, Review, lastOp, written>>

\* Promise.all resolves: the response is built, cached and sent
DetRelatedOk(d) ==
    LET resp == PaperResponse(det[d].paper, ReviewsOf(Review, det[d].paperId))
    IN  /\ det[d].pc = "related"
        /\ det' = [det EXCEPT ![d].pc = "done", ![d].resp = resp]
        /\ queryCache' = setCachedQuery(queryCache, det[d].key, resp, now)
        /\ UNCHANGED <<fields, now, ticks, budget, Paper, recentSearchLog, req, log,
                       Download, Review, lastOp, written>>

\* what the check query of a mutation leads to: paperCheck, researcherCheck
\* or reviewCheck
Checked(q) ==
    CASE q.route = PostDownload ->
            IF q.paperId \notin Paper
            THEN [q EXCEPT !.pc = "done", !.resp = DetError(404, "Paper not found")]
            ELSE [q EXCEPT !.pc = "write"]
      [] q.route = PostReview ->
            IF q.paperId \notin Paper
            THEN [q EXCEPT !.pc = "done", !.resp = DetError(404, "Paper not found")]
            ELSE [q EXCEPT !.pc = "existing"]
      [] q.route = InterDownloads ->
            IF DetUser \notin Researchers
            THEN [q EXCEPT !.pc = "done",
                           !.resp = DetError(400, "User is not a researcher")]
            ELSE [q EXCEPT !.pc = "write"]
      [] OTHER ->
            IF q.reviewId \notin 1..Len(Review)
            THEN [q EXCEPT !.pc = "done", !.resp = DetError(404, "Review not found")]
            ELSE IF Review[q.reviewId].Researcher_ID # DetUser
            THEN [q EXCEPT !.pc = "done",
                           !.resp = DetError(403, "You can only update your own reviews")]
            ELSE [q EXCEPT !.pc = "write", !.target = q.reviewId]

DetCheckOk(d) ==
    /\ det[d].pc = "check"
    /\ det' = [det EXCEPT ![d] = Checked(det[d])]
    /\ UNCHANGED <<fields, now, ticks, budget, Paper, queryCache, recentSearchLog, req, log,
                   Download, Review, lastOp, written>>

\* the existingReview query of POST /papers/:id/review resolves
DetExistingOk(d) ==
    /\ det[d].pc = "existing"
    /\ det' = [det EXCEPT ![d].pc = "write",
                          ![d].target = ExistingReview(Review, det[d].paperId, DetUser)]
    /\ UNCHANGED <<fields, now, ticks, budget, Paper, queryCache, recentSearchLog, req, log,
                   Download, Review, lastOp, written>>

\* mutant: the routes of routes/interactions.js invalidate as well
InvalidatesAll(route) == TRUE

\* whether the route calls queryCache.delete(getCacheKey({ paperId })) after
\* its write: the routes of routes/papers.js do; routes/interactions.js has
\* no access to the cache of routes/papers.js
Invalidates(route) == route \in {PostDownload, PostReview}

\* the paper a mutation is about
PaperOf(q) ==
    IF q.route = InterPutReview THEN Review[q.target].Paper_ID ELSE q.paperId

\* the tables after the INSERT or UPDATE of a mutation
DownloadAfter(q) ==
    IF q.route \in {PostDownload, InterDownloads}
    THEN Append(Download, [Paper_ID |-> q.paperId, Researcher_ID |-> DetUser])
    ELSE Download

ReviewAfter(q) ==
    IF q.route \in {PostDownload, InterDownloads} THEN Review
    ELSE IF q.target # 0 THEN [Review EXCEPT ![q.target].Rating = q.rating]
    ELSE Append(Review, [Paper_ID |-> q.paperId, Researcher_ID |-> DetUser,
                         Rating |-> q.rating])

\* the success response of a mutation
Written(q) ==
    CASE q.route = PostDownload -> DetOk(200, "Download recorded successfully", TRUE)
      [] q.route = InterDownloads -> DetOk(201, "Download recorded successfully", TRUE)
      [] q.route = InterReviews -> DetOk(201, "Review submitted successfully", TRUE)
      [] q.route = PostReview /\ q.target = 0 ->
            DetOk(201, "Review submitted successfully", FALSE)
      [] OTHER -> DetOk(200, "Review updated successfully", FALSE)

\* the INSERT or UPDATE of a mutation resolves: invalidation (where the route
\* has one) and response
DetWriteOk(d) ==
    LET q == det[d]
    IN  /\ q.pc = "write"
        /\ Download' = DownloadAfter(q)
        /\ Review' = ReviewAfter(q)
        /\ queryCache' =
             IF Invalidates(q.route)
             THEN CacheDelete(queryCache, DetailKey(ToString(PaperOf(q))))
             ELSE queryCache
        /\ det' = [det EXCEPT ![d].pc = "done", ![d].resp = Written(q)]
        /\ UNCHANGED <<fields, now, ticks, budget, Paper, recentSearchLog, req, log,
                       lastOp, written>>

-----------------------------------------------------------------------------
(* Direct calls of the cache functions *)

\* the keys and values of the calls: the detail views of the first two papers
\* and of one paper past the capacity
ProbeIds == {1, 2, CACHE_MAX + 1}
ProbeValues ==
    {PaperResponse([NoPaper EXCEPT !.Download_Count = n], {}) : n \in {0, 1}}

\* the populations a run starts from: n detail views cached at time 1, in the
\* order of their ids
FillLevels == {0, CACHE_MAX - 1, CACHE_MAX}

Prefill(n) ==
    [i \in 1..n |-> [key |-> DetailKey(ToString(i)),
                     data |-> PaperResponse(NoPaper, {}), timestamp |-> 1]]

PrefillWritten(n) ==
    [k \in {DetailKey(ToString(i)) : i \in 1..n} |->
        LET i == CHOOSE x \in 1..n : DetailKey(ToString(x)) = k
        IN  [data |-> PaperResponse(NoPaper, {}), at |-> 1, rank |-> i - n,
             live |-> TRUE]]

NoOp ==
    [n |-> 0, op |-> "none", key |-> <<>>, data |-> NoDetResp, hit |-> FALSE,
     at |-> 0, gone |-> {}]

KeysOf(cache) == {cache[i].key : i \in 1..Len(cache)}

\* the history after a call that left the cache c2: a key that is no longer
\* in the cache is marked as removed
Observed(w, c1, c2) ==
    LET gone == KeysOf(c1) \ KeysOf(c2)
    IN  [k \in DOMAIN w |-> IF k \in gone THEN [w[k] EXCEPT !.live = FALSE] ELSE w[k]]

\* setCachedQuery(key, data)
CallSet(key, data) ==
    LET c2 == setCachedQuery(queryCache, key, data, now)
        rank == IF key \in KeysOf(queryCache) THEN written[key].rank
                ELSE lastOp.n + 1
    IN  /\ lastOp.n < MaxOps
        /\ queryCache' = c2
        /\ lastOp' = [n |-> lastOp.n + 1, op |-> "set", key |-> key, data |-> data,
                      hit |-> FALSE, at |-> now,
                      gone |-> KeysOf(queryCache) \ KeysOf(c2)]
        /\ written' = Observed(MapPut(written, key,
                                      [data |-> data, at |-> now, rank |-> rank,
                                       live |-> TRUE]),
                               queryCache, c2)
        /\ UNCHANGED <<fields, now, ticks, budget, Paper, recentSearchLog, req, log,
                       Download, Review, det>>

\* getCachedQuery(key)
CallGet(key) ==
    LET hit == CacheValid(queryCache, key, now)
        c2 == CacheAfterGet(queryCache, key, now)
    IN  /\ lastOp.n < MaxOps
        /\ queryCache' = c2
        /\ lastOp' = [n |-> lastOp.n + 1, op |-> "get", key |-> key,
                      data |-> IF hit THEN CachedData(queryCache, key) ELSE NoDetResp,
                      hit |-> hit, at |-> now,
                      gone |-> KeysOf(queryCache) \ KeysOf(c2)]
        /\ written' = Observed(written, queryCache, c2)
        /\ UNCHANGED <<fields, now, ticks, budget, Paper, recentSearchLog, req, log,
                       Download, Review, det>>

\* queryCache.delete(key)
CallDelete(key) ==
    LET c2 == CacheDelete(queryCache, key)
    IN  /\ lastOp.n < MaxOps
        /\ queryCache' = c2
        /\ lastOp' = [n |-> lastOp.n + 1, op |-> "delete", key |-> key,
                      data |-> NoDetResp, hit |-> FALSE, at |-> now,
                      gone |-> KeysOf(queryCache) \ KeysOf(c2)]
        /\ written' = Observed(written, queryCache, c2)
        /\ UNCHANGED <<fields, now, ticks, budget, Paper, recentSearchLog, req, log,
                       Download, Review, det>>

-----------------------------------------------------------------------------
(* routes/fields.js: POST /fields and PUT /fields/:id *)

Flds == 1..MaxFld

PostField == "POST /fields"
PutField == "PUT /fields/:id"

NAME_MAX == 100
DESC_MAX == 300

\* a string of the body is the sequence of its characters
LongName == [i \in 1..(NAME_MAX + 1) |-> "a"]
LongDescription == [i \in 1..(DESC_MAX + 1) |-> "d"]

\* String.prototype.trim(): the string without its leading and trailing blanks
RECURSIVE TrimStart(_)
TrimStart(s) ==
    IF Len(s) > 0 /\ Head(s) = " " THEN TrimStart(Tail(s)) ELSE s

RECURSIVE TrimEnd(_)
TrimEnd(s) ==
    IF Len(s) > 0 /\ s[Len(s)] = " " THEN TrimEnd(SubSeq(s, 1, Len(s) - 1)) ELSE s

Trim(s) == TrimEnd(TrimStart(s))

\* req.body: Field_Name may be missing; a missing Description and '' are
\* both falsy and are both stored as NULL, written <<>> here
FieldNames == {<<>>, <<" ">>, <<"a">>, <<" ", "a">>, <<"a", " ">>, <<"b">>, LongName}
Descriptions == {<<>>, <<"d", " ">>, LongDescription}
FieldBodies ==
    [hasName : BOOLEAN, Field_Name : FieldNames, Description : Descriptions]

\* req.params.id, and parseInt of it: the leading decimal digits, NaN without
DigitValue == [c \in {"0", "1", "2", "3"} |-> CASE c = "0" -> 0 [] c = "1" -> 1
                                                   [] c = "2" -> 2 [] OTHER -> 3]
IdParams == {<<"x">>, <<"0">>, <<"1">>, <<"2">>, <<"3">>, <<"2", "x">>}

RECURSIVE LeadingDigits(_)
LeadingDigits(s) ==
    IF Len(s) > 0 /\ Head(s) \in DOMAIN DigitValue
    THEN <<Head(s)>> \o LeadingDigits(Tail(s))
    ELSE <<>>

RECURSIVE DecimalValue(_)
DecimalValue(ds) ==
    IF Len(ds) = 0 THEN 0
    ELSE (10 * DecimalValue(SubSeq(ds, 1, Len(ds) - 1))) + DigitValue[ds[Len(ds)]]

parseInt(s) ==
    [isNaN |-> Len(LeadingDigits(s)) = 0, value |-> DecimalValue(LeadingDigits(s))]

NoFldResp == [status |-> 0, success |-> FALSE, message |-> "", hasData |-> FALSE]

\* res.status(s).json({success: false, message, data: null})
FldError(status, message) == [NoFldResp EXCEPT !.status = status, !.message = message]

\* res.status(s).json({success: true, message, data: result.recordset[0]})
FldOk(status, message) ==
    [status |-> status, success |-> TRUE, message |-> message, hasData |-> TRUE]

IdleFld ==
    [pc |-> "idle", route |-> "", fieldId |-> 0, Field_Name |-> <<>>,
     Description |-> <<>>, resp |-> NoFldResp]

\* the checks before the first await; NoFldResp when the request passes
FldValidate(route, id, body) ==
    CASE route = PutField /\ (id.isNaN \/ id.value < 1) ->
            FldError(400, "Invalid field ID")
      [] ~body.hasName \/ Len(body.Field_Name) = 0
                       \/ Len(Trim(body.Field_Name)) = 0 ->
            FldError(400, "Field name is required")
      [] Len(body.Field_Name) > NAME_MAX ->
            FldError(400, "Field name must be 100 characters or less")
      [] Len(body.Description) > 0 /\ Len(body.Description) > DESC_MAX ->
            FldError(400, "Description must be 300 characters or less")
      [] OTHER -> NoFldResp

\* the handler up to await getPool()
FldArrive(f, route, idParam, body) ==
    /\ fld[f].pc = "idle"
    /\ LET id == parseInt(idParam)
           v == FldValidate(route, id, body)
       IN fld' = [fld EXCEPT
              ![f].route = route,
              ![f].fieldId = IF route = PutField /\ ~id.isNaN THEN id.value ELSE 0,
              ![f].Field_Name = body.Field_Name,
              ![f].Description = body.Description,
              ![f].resp = v,
              ![f].pc = IF v = NoFldResp THEN "pool" ELSE "done"]
    /\ UNCHANGED <<now, ticks, budget, Paper, queryCache, recentSearchLog, req, log,
                   Download, Review, det, lastOp, written, Field>>

\* getPool() or a query rejects: the catch block
FldFail(f) ==
    /\ fld[f].pc \in {"pool", "check", "write"}
    /\ fld' = [fld EXCEPT
           ![f].pc = "done",
           ![f].resp = FldError(500, IF fld[f].route = PostField
                                     THEN "Failed to create field"
                                     ELSE "Failed to update field")]
    /\ UNCHANGED <<now, ticks, budget, Paper, queryCache, recentSearchLog, req, log,
                   Download, Review, det, lastOp, written, Field>>

\* await getPool() resolves
FldPoolOk(f) ==
    /\ fld[f].pc = "pool"
    /\ fld' = [fld EXCEPT ![f].pc = "check"]
    /\ UNCHANGED <<now, ticks, budget, Paper, queryCache, recentSearchLog, req, log,
                   Download, Review, det, lastOp, written, Field>>

\* SELECT Field_ID FROM Field WHERE Field_Name = @fieldName
FieldsNamed(table, name) == {i \in 1..Len(table) : table[i].Field_Name = name}

\* SELECT Field_ID FROM Field WHERE Field_ID = @fieldId
FieldsWithId(table, id) == {i \in 1..Len(table) : table[i].Field_ID = id}

\* the existingField SELECT is answered: 409 for a create whose name exists,
\* 404 for an update of a missing id
FldCheckOk(f) ==
    /\ fld[f].pc = "check"
    /\ fld' =
         IF fld[f].route = PostField
         THEN IF FieldsNamed(Field, Trim(fld[f].Field_Name)) # {}
              THEN [fld EXCEPT ![f].pc = "done",
                       ![f].resp = FldError(409, "Field with this name already exists")]
              ELSE [fld EXCEPT ![f].pc = "write"]
         ELSE IF FieldsWithId(Field, fld[f].fieldId) = {}
              THEN [fld EXCEPT ![f].pc = "done",
                       ![f].resp = FldError(404, "Field not found")]
              ELSE [fld EXCEPT ![f].pc = "write"]
    /\ UNCHANGED <<now, ticks, budget, Paper, queryCache, recentSearchLog, req, log,
                   Download, Review, det, lastOp, written, Field>>

\* the row written: Field_Name.trim() and Description?.trim() || null
FieldRow(id, name, description) ==
    [Field_ID |-> id, Field_Name |-> Trim(name), Description |-> Trim(description)]

\* INSERT INTO Field ... VALUES (@fieldName, @description)
InsertField(table, name, description) ==
    Append(table, FieldRow(Len(table) + 1, name, description))

\* UPDATE Field SET Field_Name = @fieldName, Description = @description
\* WHERE Field_ID = @fieldId
UpdateField(table, id, name, description) ==
    [i \in 1..Len(table) |->
        IF table[i].Field_ID = id THEN FieldRow(id, name, description) ELSE table[i]]

\* the INSERT or the UPDATE is answered, and the response sent
FldWriteOk(f) ==
    /\ fld[f].pc = "write"
    /\ IF fld[f].route = PostField
       THEN /\ Field' = InsertField(Field, fld[f].Field_Name, fld[f].Description)
            /\ fld' = [fld EXCEPT ![f].pc = "done",
                          ![f].resp = FldOk(201, "Field created successfully")]
       ELSE /\ Field' = UpdateField(Field, fld[f].fieldId, fld[f].Field_Name,
                                    fld[f].Description)
            /\ fld' = [fld EXCEPT ![f].pc = "done",
                          ![f].resp = FldOk(200, "Field updated successfully")]
    /\ UNCHANGED <<now, ticks, budget, Paper, queryCache, recentSearchLog, req, log,
                   Download, Review, det, lastOp, written>>

-----------------------------------------------------------------------------
(* Specifications *)

\* the steps of the handler after the arrival
Steps ==
    \/ \E r \in Reqs : PoolFail(r)
    \/ \E r \in Reqs : PoolOk(r)
    \/ \E r \in Reqs : QueryFail(r)
    \/ \E r \in Reqs :
          \E rows \in RecordsetOrders(Resolved(Paper, PagedIds(req[r]))) :
              QueryIds(r, rows)
    \/ \E r \in Reqs : QueryStandard(r)
    \/ \E r \in Reqs : CountFail(r)
    \/ \E r \in Reqs : CountOk(r)

IdleAux ==
    /\ Download = <<>>
    /\ Review = <<>>
    /\ det = [d \in Dets |-> IdleDet]
    /\ lastOp = NoOp
    /\ written = <<>>
    /\ Field = <<>>
    /\ fld = [f \in Flds |-> IdleFld]

InitShared ==
    /\ now = 1
    /\ queryCache = <<>>
    /\ recentSearchLog = <<>>
    /\ req = [r \in Reqs |-> IdleReq]
    /\ log = [t \in Tasks |-> FreeTask]

\* Spec: one listing request over every input, corpus and reply
Init ==
    /\ InitShared
    /\ IdleAux
    /\ ticks = 1
    /\ budget = 1
    /\ Paper \in Corpora

Next ==
    \/ \E r \in Reqs, pl \in PageLimits, f \in FieldInputs, s \in SearchInputs,
          h \in AuthHeaders : GetPapers(r, pl, f, s, h)
    \/ \E r \in Reqs, reply \in RecReplies : RecsReply(r, reply)
    \/ Steps
    \/ \E t \in Tasks, reply \in SinkReplies : SinkReply(t, reply)
    \/ \E t \in Tasks : Purge(t)
    \/ \E d \in TickSteps : Tick(d)

Spec == Init /\ [][Next]_vars

\* SpecPair: MaxReq listing requests that interleave at every await, over the
\* pages of one short ranked list
PairPageLimits == {<<1, 2>>, <<3, 2>>}
PairAuth == {<<>>, <<"Bearer", "t1">>, <<"Bearer", "t2">>}
PairReplies ==
    {[kind |-> "network", ids |-> <<>>], [kind |-> "list", ids |-> <<5, 8, 2, 1>>]}

PairTickSteps == {CACHE_TTL - 1, CACHE_TTL}

InitPair ==
    /\ InitShared
    /\ IdleAux
    /\ ticks = 1
    /\ budget = MaxReq
    /\ Paper = PaperIds

NextPair ==
    \/ \E r \in Reqs, pl \in PairPageLimits, s \in SearchInputs, h \in PairAuth :
          GetPapers(r, pl, Undefined, s, h)
    \/ \E r \in Reqs, reply \in PairReplies : RecsReply(r, reply)
    \/ Steps
    \/ \E t \in Tasks, reply \in {"ok", "network"} : SinkReply(t, reply)
    \/ \E d \in PairTickSteps : Tick(d)

SpecPair == InitPair /\ [][NextPair]_vars

\* SpecLog: MaxLog calls of the logger, with the clock and the cleanup timers
LogUsers == {Null, "u1"}
LogQueries == {"q"}
LogTickSteps == {1, LOG_DEDUPE_TTL - 1, (LOG_DEDUPE_TTL * 4) + 1}

InitLog ==
    /\ InitShared
    /\ IdleAux
    /\ ticks = MaxTicks
    /\ budget = 0
    /\ Paper = PaperIds

NextLog ==
    \/ \E t \in Tasks, u \in LogUsers, s \in LogQueries : LogSearch(t, u, s)
    \/ \E t \in Tasks, reply \in {"ok", "network"} : SinkReply(t, reply)
    \/ \E t \in Tasks : Purge(t)
    \/ \E d \in LogTickSteps : Tick(d)

SpecLog == InitLog /\ [][NextLog]_vars

\* SpecLive: Spec, where every await of the handler settles (the store answers
\* or fails, the recommender call answers or is aborted at its timeout); the
\* analytics sink is under no such obligation
HandlerStep(r) ==
    \/ PoolFail(r)
    \/ PoolOk(r)
    \/ \E reply \in RecReplies : RecsReply(r, reply)
    \/ QueryFail(r)
    \/ \E rows \in RecordsetOrders(Resolved(Paper, PagedIds(req[r]))) : QueryIds(r, rows)
    \/ QueryStandard(r)
    \/ CountFail(r)
    \/ CountOk(r)

SpecLive == Spec /\ \A r \in Reqs : WF_vars(HandlerStep(r))

\* SpecDetail: MaxDet requests of the detail view and of the download and
\* review routes, interleaving at every await
\* the reviews a run starts with: one of another researcher, and with or
\* without one of the caller
ReviewTables ==
    {<<[Paper_ID |-> 7, Researcher_ID |-> "u2", Rating |-> 5]>>,
     <<[Paper_ID |-> 7, Researcher_ID |-> "u2", Rating |-> 5],
       [Paper_ID |-> 7, Researcher_ID |-> "u1", Rating |-> 2]>>}

InitDetail ==
    /\ InitShared
    /\ ticks = 0
    /\ budget = 0
    /\ Paper = PaperIds \ {9}
    /\ Download = <<>>
    /\ Review \in ReviewTables
    /\ det = [d \in Dets |-> IdleDet]
    /\ lastOp = NoOp
    /\ written = <<>>
    /\ Field = <<>>
    /\ fld = [f \in Flds |-> IdleFld]

NextDetail ==
    \/ \E d \in Dets, in \in DetInputs : DetArrive(d, in)
    \/ \E d \in Dets : DetFail(d)
    \/ \E d \in Dets : DetPoolOk(d)
    \/ \E d \in Dets : DetPaperOk(d)
    \/ \E d \in Dets : DetRelatedOk(d)
    \/ \E d \in Dets : DetCheckOk(d)
    \/ \E d \in Dets : DetExistingOk(d)
    \/ \E d \in Dets : DetWriteOk(d)

SpecDetail == InitDetail /\ [][NextDetail]_vars

\* SpecCache: MaxOps direct calls of the cache functions on a cache that is
\* empty, one short of full, or full, with the clock
CacheTickSteps == {1, CACHE_TTL - 1}

InitCache ==
    /\ now = 1
    /\ recentSearchLog = <<>>
    /\ req = [r \in Reqs |-> IdleReq]
    /\ log = [t \in Tasks |-> FreeTask]
    /\ ticks = MaxTicks
    /\ budget = 0
    /\ Paper = PaperIds
    /\ Download = <<>>
    /\ Review = <<>>
    /\ det = [d \in Dets |-> IdleDet]
    /\ lastOp = NoOp
    /\ Field = <<>>
    /\ fld = [f \in Flds |-> IdleFld]
    /\ \E n \in FillLevels :
          /\ queryCache = Prefill(n)
          /\ written = PrefillWritten(n)

NextCache ==
    \/ \E p \in ProbeIds, v \in ProbeValues : CallSet(DetailKey(ToString(p)), v)
    \/ \E p \in ProbeIds : CallGet(DetailKey(ToString(p)))
    \/ \E p \in ProbeIds : CallDelete(DetailKey(ToString(p)))
    \/ \E d \in CacheTickSteps : Tick(d)

SpecCache == InitCache /\ [][NextCache]_vars


\* SpecFields: MaxFld requests of POST /fields and PUT /fields/:id that
\* interleave at every await, on a Field table of zero to two rows
FieldTables ==
    {<<>>,
     <<FieldRow(1, <<"a">>, <<>>)>>,
     <<FieldRow(1, <<"a">>, <<>>), FieldRow(2, <<"b">>, <<"d">>)>>}

InitFields ==
    /\ InitShared
    /\ ticks = 0
    /\ budget = 0
    /\ Paper = PaperIds
    /\ Download = <<>>
    /\ Review = <<>>
    /\ det = [d \in Dets |-> IdleDet]
    /\ lastOp = NoOp
    /\ written = <<>>
    /\ Field \in FieldTables
    /\ fld = [f \in Flds |-> IdleFld]

NextFields ==
    \/ \E f \in Flds, body \in FieldBodies : FldArrive(f, PostField, <<>>, body)
    \/ \E f \in Flds, id \in IdParams, body \in FieldBodies :
          FldArrive(f, PutField, id, body)
    \/ \E f \in Flds : FldFail(f)
    \/ \E f \in Flds : FldPoolOk(f)
    \/ \E f \in Flds : FldCheckOk(f)
    \/ \E f \in Flds : FldWriteOk(f)

SpecFields == InitFields /\ [][NextFields]_vars

-----------------------------------------------------------------------------
(* Properties *)

Started(r) == req[r].pc # "idle"
Done(r) == req[r].pc = "done"
Miss(r) == Started(r) /\ ~req[r].hit
Caller(r) == HeaderUser(req[r].auth)
RecFailures == {"network", "status", "badjson", "nolist"}

\* the request carries neither a search term nor a field filter
NoFilter(r) == ~Truthy(req[r].search) /\ ~Truthy(req[r].fieldId)

\* C1: two feed requests (no search, no field filter) with the same page and
\* limit from different callers never have the same cache key, and a
\* personalized page composed for one caller is never replayed from the cache
\* to another caller.
C1_CacheKeyHasIdentity ==
    \A a, b \in Reqs :
        (/\ a # b /\ Started(a) /\ Started(b)
         /\ NoFilter(a) /\ NoFilter(b)
         /\ req[a].page = req[b].page /\ req[a].limit = req[b].limit
         /\ Caller(a) # Caller(b))
        => /\ req[a].key # req[b].key
           /\ ~(/\ Miss(a) /\ Done(a) /\ req[a].resp.flag = "true"
                /\ req[b].hit /\ req[b].resp = req[a].resp)

\* C2: every listing request that carries a search term has invoked logSearch
\* once, whether its response was computed or replayed from the cache.
C2_EverySearchIsLogged ==
    \A r \in Reqs :
        (Started(r) /\ Truthy(req[r].search)) =>
            /\ req[r].task # 0
            /\ log[req[r].task].pc # "free"

\* C3: a request that has arrived is eventually answered, whatever the sink
\* does, and no step of the logger changes a handler's locals or response.
C3_ResponseNeverWaitsOnLogger ==
    /\ \A r \in Reqs : Started(r) ~> Done(r)
    /\ [][(/\ log' # log
            /\ \A r \in Reqs : (req[r].pc = "idle") <=> (req'[r].pc = "idle"))
           => req' = req]_vars

C3_Witness ==
    \E r \in Reqs :
        /\ Done(r) /\ req[r].resp.status = 200 /\ req[r].task # 0
        /\ log[req[r].task].pc = "fetch2"

\* C4: a logSearch call is skipped, with no outbound call, iff it starts less
\* than 30 s after the latest earlier call with its key that was not skipped;
\* skipped calls do not count as the latest.
PrevSent(t) ==
    {u \in Tasks : u < t /\ log[u].pc # "free" /\ log[u].key = log[t].key
                   /\ log[u].outcome # "skipped"}

LatestSent(t) ==
    CHOOSE m \in {log[u].startedAt : u \in PrevSent(t)} :
        \A u \in PrevSent(t) : log[u].startedAt <= m

C4_DedupeWindow ==
    \A t \in Tasks :
        log[t].pc # "free" =>
            IF PrevSent(t) # {} /\ log[t].startedAt - LatestSent(t) < LOG_DEDUPE_TTL
            THEN log[t].outcome = "skipped" /\ log[t].calls = 0 /\ log[t].pc = "done"
            ELSE log[t].outcome # "skipped" /\ log[t].calls >= 1

\* a skipped call, and a later call 30 s after the first that is sent again
C4_Witness ==
    \E a, b, c \in Tasks :
        /\ a < b /\ b < c
        /\ log[a].key = log[b].key /\ log[b].key = log[c].key
        /\ log[a].pc # "free" /\ log[b].outcome = "skipped"
        /\ log[c].pc # "free" /\ log[c].outcome # "skipped"
        /\ log[c].startedAt - log[a].startedAt = LOG_DEDUPE_TTL

\* C5: a call that passed the dedupe check makes one outbound call when the
\* first attempt succeeds and two when it fails, never more; it ends ok iff
\* one attempt succeeded, failed otherwise.
C5_BoundedRetry ==
    \A t \in Tasks :
        /\ log[t].calls <= 2
        /\ (log[t].pc = "done" /\ log[t].outcome # "skipped") =>
              /\ log[t].calls = Len(log[t].replies)
              /\ IF log[t].replies[1] = "ok"
                 THEN log[t].calls = 1 /\ log[t].outcome = "ok"
                 ELSE /\ log[t].calls = 2
                      /\ log[t].outcome =
                           IF log[t].replies[2] = "ok" THEN "retried" ELSE "failed"

C5_Witness ==
    \E t, u \in Tasks :
        /\ log[t].pc = "done" /\ log[t].outcome = "failed" /\ log[t].calls = 2
        /\ log[u].pc = "done" /\ log[u].outcome = "retried" /\ log[u].calls = 2

\* C6: a request calls the recommender at most once, and a failed call (network
\* error or abort, non-success status, unparsable body, body without a list)
\* yields the empty list and never an error response of its own.
C6_RecommenderFailOpen ==
    \A r \in Reqs :
        /\ req[r].recCalls <= 1
        /\ req[r].recKind \in RecFailures =>
              /\ req[r].recIds = <<>>
              /\ ~req[r].isRec
              /\ req[r].pc \in {"query", "count", "done"}
              /\ (Done(r) /\ req[r].resp.status # 200) => req[r].storeErr

C6_Witness ==
    \E r \in Reqs :
        /\ req[r].recKind = "status" /\ Done(r) /\ req[r].resp.status = 200
        /\ req[r].recCalls = 1

\* C7: a feed request whose recommender call yielded the empty list is answered
\* with the standard page (publication date descending, offset
\* (page-1)*limit, at most limit rows), isRecommendation false and the corpus
\* count as total; the only other answer is the 500 of a store failure.
C7_FallbackToStandard ==
    \A r \in Reqs :
        (Done(r) /\ Miss(r) /\ NoFilter(r) /\ req[r].recKind # "none"
         /\ req[r].recIds = <<>>) =>
            IF req[r].storeErr THEN req[r].resp = Error500
            ELSE /\ req[r].resp.status = 200 /\ req[r].resp.success
                 /\ req[r].resp.flag = "false"
                 /\ req[r].resp.papers =
                      StandardPage(Paper, Undefined, Undefined,
                                   (req[r].page - 1) * req[r].limit, req[r].limit)
                 /\ Len(req[r].resp.papers) <= req[r].limit
                 /\ req[r].resp.total = Cardinality(Paper)

C7_Witness ==
    \E r \in Reqs :
        /\ Done(r) /\ req[r].recKind = "network" /\ req[r].resp.status = 200
        /\ req[r].page = 3 /\ req[r].limit = 20
        /\ Len(req[r].resp.papers) \in 1..19

\* the answer of a request in personalized mode: a page of a ranked list, or
\* the empty page that ends the personalized feed
PersonalizedAnswer(r) ==
    \/ req[r].resp.flag = "true"
    \/ req[r].resp = EndOfListResponse(req[r].page, req[r].limit, req[r].recIds)

\* C8: a request with a search term or a field filter never calls the
\* recommender and is answered in standard mode; a request with neither that
\* missed the cache calls it exactly once (unless pool acquisition failed
\* first) and is answered in personalized mode iff the returned list is not
\* empty.
C8_ModeDetermination ==
    \A r \in Reqs :
        /\ (Started(r) /\ ~NoFilter(r)) =>
              /\ req[r].recCalls = 0 /\ req[r].recKind = "none"
              /\ (Done(r) /\ req[r].resp.status = 200) =>
                    (req[r].resp.flag = "false" /\ ~PersonalizedAnswer(r))
        /\ (Miss(r) /\ NoFilter(r)) =>
              /\ req[r].recCalls <= 1
              /\ req[r].pc \in {"recs", "query", "count"} => req[r].recCalls = 1
              /\ Done(r) =>
                    \/ req[r].recCalls = 1 /\ req[r].recKind # "none"
                    \/ req[r].recCalls = 0 /\ req[r].queries = 0
                       /\ req[r].resp = Error500
              /\ (Done(r) /\ req[r].resp.status = 200) =>
                    (PersonalizedAnswer(r) <=> req[r].recIds # <<>>)

C8_Witness ==
    \E r \in Reqs :
        /\ Done(r) /\ req[r].resp.status = 200 /\ req[r].resp.flag = "true"
        /\ req[r].recCalls = 1 /\ req[r].recIds = <<5, 8, 2, 1>>

\* the ids of a ranked list at the 0-based positions (page-1)*limit .. page*limit-1
IndexSlice(R, page, limit) ==
    LET lo == Max((page - 1) * limit, 0)
        hi == Min((page * limit) - 1, Len(R) - 1)
    IN  IF lo <= hi THEN SubSeq(R, lo + 1, hi + 1) ELSE <<>>

\* C9: in personalized mode the page is composed from exactly the ids
\* R[(page-1)*limit .. page*limit-1], in rank order, with total = |R|; when
\* that slice is empty the papers list is empty and the store is not queried.
C9_PersonalizedSlice ==
    \A r \in Reqs :
        (Done(r) /\ Miss(r) /\ req[r].resp.status = 200 /\ PersonalizedAnswer(r)) =>
            LET ids == IndexSlice(req[r].recIds, req[r].page, req[r].limit)
            IN  /\ req[r].resp.papers = SelectSeq(ids, LAMBDA id : id \in Paper)
                /\ req[r].resp.total = Len(req[r].recIds)
                /\ ids = <<>> => req[r].queries = 0

\* C10: the personalized page is the requested id slice, in slice order,
\* restricted to the ids that resolve, whatever order the store returned the
\* rows in; an unresolved id is dropped, and nothing outside the slice appears.
C10_ReorderToSlice ==
    \A r \in Reqs :
        (Done(r) /\ Miss(r) /\ req[r].resp.flag = "true") =>
            /\ req[r].resp.status = 200
            /\ req[r].resp.papers =
                 SelectSeq(PagedIds(req[r]), LAMBDA id : id \in Paper)
            /\ Range(req[r].resp.papers) = Range(req[r].recordset)
            /\ Range(req[r].resp.papers) \subseteq Range(PagedIds(req[r]))

\* ranked [3,9,7] with 9 unresolved, rows returned as [7,3]: the page is [3,7]
C10_Witness ==
    \E r \in Reqs :
        /\ Done(r) /\ req[r].recIds = <<3, 9, 7>> /\ 9 \notin Paper
        /\ req[r].recordset = <<7, 3>>
        /\ req[r].resp.papers = <<3, 7>> /\ req[r].resp.status = 200

\* C11: every response served in personalized mode (a page of the ranked list,
\* or the empty page that ends the personalized feed) reports total = the
\* length of the ranked list, pages = ceil(total / limit) and
\* isRecommendation = true.
C11_PersonalizedMetadata ==
    \A r \in Reqs :
        (Done(r) /\ Miss(r) /\ req[r].resp.status = 200 /\ PersonalizedAnswer(r)) =>
            /\ req[r].resp.total = Len(req[r].recIds)
            /\ req[r].resp.pages = Ceil(Len(req[r].recIds), req[r].limit)
            /\ req[r].resp.flag = "true"

\* C13: every successful listing response carries data with papers, the
\* pagination block and the isRecommendation flag, on every success path:
\* standard page, personalized page, end-of-feed page, replay from the cache.
C13_EnvelopeHasFlag ==
    \A r \in Reqs :
        (Done(r) /\ req[r].resp.status = 200) =>
            /\ req[r].resp.success
            /\ req[r].resp.hasData
            /\ req[r].resp.page = req[r].page
            /\ req[r].resp.limit = req[r].limit
            /\ req[r].resp.flag \in {"true", "false"}

\* C14: every successful listing response, in either mode and for every
\* (page, limit) the endpoint accepts, has papers.length <= limit.
C14_PageSize ==
    \A r \in Reqs :
        (Done(r) /\ req[r].resp.status = 200) =>
            Len(req[r].resp.papers) <= req[r].resp.limit

\* the pagination bounds the specification calls invalid
InvalidBounds(r) == req[r].page < 1 \/ req[r].limit < 1 \/ req[r].limit > 100

\* C15: a listing request with invalid pagination bounds is answered at once
\* with a 4xx, and never calls the recommender, never queries the store and
\* never writes the cache.
C15_InvalidPaginationRejected ==
    \A r \in Reqs :
        (Started(r) /\ InvalidBounds(r)) =>
            /\ Done(r)
            /\ req[r].resp.status \in 400..499
            /\ req[r].recCalls = 0
            /\ req[r].queries = 0
            /\ CacheIndex(queryCache, req[r].key) = 0

\* C16: a request that meets a store failure (pool acquisition, page query,
\* count query) is answered with the 500 envelope (success false, no data);
\* the step that fails leaves the cache as it was, and no cache entry ever
\* holds an error response.
C16_StoreFailureIs500 ==
    /\ [](\A r \in Reqs :
            req[r].storeErr =>
                /\ Done(r)
                /\ req[r].resp.status = 500
                /\ ~req[r].resp.success
                /\ ~req[r].resp.hasData)
    /\ [](\A i \in 1..Len(queryCache) : queryCache[i].data.status = 200)
    /\ [][\A r \in Reqs :
            (~req[r].storeErr /\ req'[r].storeErr) => queryCache' = queryCache]_vars

\* the count query fails after the page query returned rows
C16_Witness ==
    \E r \in Reqs :
        /\ Done(r) /\ req[r].storeErr /\ req[r].resp.status = 500
        /\ req[r].queries = 1 /\ req[r].papers # <<>>
        /\ CacheIndex(queryCache, req[r].key) = 0

\* the answer is a page of the standard chronological ordering
StandardAnswer(r) == req[r].resp.status = 200 /\ req[r].resp.flag = "false"

\* request a was answered with a personalized page 1 before request b, for a
\* later page of the same unfiltered feed, arrived
BrowsesOn(a, b) ==
    /\ a \in req[b].after
    /\ NoFilter(a) /\ NoFilter(b)
    /\ req[a].page = 1 /\ req[a].resp.flag = "true"
    /\ req[b].page > 1 /\ req[b].limit = req[a].limit

\* C12 as stated: once page 1 was served in personalized mode, a later request
\* for a page > 1 is never answered with a page of the standard ordering.
C12_NoOrderingJump ==
    \A a, b \in Reqs :
        (BrowsesOn(a, b) /\ Done(b)) => ~StandardAnswer(b)

\* C12 amended: the mode is decided per request from that request's own
\* recommender reply: a computed answer for a page > 1 is a slice of the ranked
\* list or the end-of-feed page iff that reply was a non-empty list, and the
\* standard page iff the reply was empty or the call failed, whatever an
\* earlier page 1 was served as.
C12_ModePerRequest ==
    \A r \in Reqs :
        (Done(r) /\ Miss(r) /\ NoFilter(r) /\ req[r].page > 1
         /\ req[r].resp.status = 200) =>
            /\ req[r].recIds # <<>> =>
                  /\ PersonalizedAnswer(r)
                  /\ ~StandardAnswer(r)
                  /\ req[r].resp.papers =
                       SelectSeq(IndexSlice(req[r].recIds, req[r].page, req[r].limit),
                                 LAMBDA id : id \in Paper)
            /\ req[r].recIds = <<>> => StandardAnswer(r)

\* page 1 personalized, then page 3 of the same list: the end-of-feed page;
\* and page 1 personalized, then page 3 with the recommender down: standard
C12_Witness ==
    \E a, b \in Reqs :
        /\ BrowsesOn(a, b) /\ Done(b) /\ Miss(b) /\ req[b].recIds = req[a].recIds
        /\ req[b].resp = EndOfListResponse(3, 2, <<5, 8, 2, 1>>)

\* the request finishes in this step with a computed success response
Completes(r) ==
    /\ ~Done(r) /\ ~req'[r].hit
    /\ req'[r].pc = "done" /\ req'[r].resp.status = 200

\* the entries of a cache under a key
EntriesOf(cache, key) == {i \in 1..Len(cache) : cache[i].key = key}

\* C20: two requests with one cache key that both miss both run the full
\* fetch and both write; whenever one of them finishes, the cache holds
\* exactly one entry under the key and it is that request's response (so the
\* last writer's response stays); barring a store failure both get a 200.
C20_ConcurrentMisses ==
    /\ [](\A a, b \in Reqs :
            (/\ a # b /\ req[a].key = req[b].key /\ Miss(a) /\ Miss(b)
             /\ Done(a) /\ Done(b) /\ ~req[a].storeErr /\ ~req[b].storeErr) =>
                /\ req[a].resp.status = 200 /\ req[b].resp.status = 200
                /\ req[a].recCalls + req[a].queries >= 1
                /\ req[b].recCalls + req[b].queries >= 1)
    /\ [](\A i, j \in 1..Len(queryCache) :
            queryCache[i].key = queryCache[j].key => i = j)
    /\ [][\A r \in Reqs :
            Completes(r) =>
                /\ Cardinality(EntriesOf(queryCache', req'[r].key)) = 1
                /\ \A i \in EntriesOf(queryCache', req'[r].key) :
                      /\ queryCache'[i].data = req'[r].resp
                      /\ queryCache'[i].timestamp = now]_vars

\* two interleaved misses on one key with different responses, both 200; the
\* single entry holds one of the two
C20_Witness ==
    \E a, b \in Reqs :
        /\ a # b /\ req[a].key = req[b].key /\ Miss(a) /\ Miss(b)
        /\ a \notin req[b].after /\ b \notin req[a].after
        /\ Done(a) /\ Done(b)
        /\ req[a].resp.status = 200 /\ req[b].resp.status = 200
        /\ req[a].resp # req[b].resp
        /\ Cardinality(EntriesOf(queryCache, req[a].key)) = 1
        /\ \E i \in EntriesOf(queryCache, req[a].key) :
              queryCache[i].data = req[b].resp

\* this step is a direct call of the cache function op
CallStep(op) == lastOp'.n = lastOp.n + 1 /\ lastOp'.op = op

\* the history holds a value for key k that was set less than CACHE_TTL before
\* t and was neither evicted nor deleted nor expired on a read since
Fresh(k, t) ==
    /\ k \in DOMAIN written
    /\ written[k].live
    /\ t - written[k].at < CACHE_TTL

\* C17: getCachedQuery(k) returns the value of the latest setCachedQuery(k, v)
\* iff that call was less than 60 s ago and the entry was not removed since;
\* a read that returns nothing leaves no entry under k (an expired entry is
\* deleted); a read right after a set returns the value set, also when the
\* set evicted an entry.
C17_CacheRead ==
    [][CallStep("get") =>
          LET k == lastOp'.key
          IN  /\ lastOp'.hit <=> Fresh(k, now)
              /\ lastOp'.hit => lastOp'.data = written[k].data
              /\ ~lastOp'.hit => k \notin KeysOf(queryCache')
              /\ (lastOp.op = "set" /\ lastOp.key = k /\ lastOp.at = now) =>
                    (lastOp'.hit /\ lastOp'.data = lastOp.data)]_vars

\* the full cache takes a 201st key, the first key is evicted, and the read
\* that follows returns the value just set
C17_Witness ==
    /\ lastOp.n = 2 /\ lastOp.op = "get" /\ lastOp.hit
    /\ lastOp.key = DetailKey(ToString(CACHE_MAX + 1))
    /\ Len(queryCache) = CACHE_MAX
    /\ DetailKey(ToString(1)) \notin KeysOf(queryCache)

\* the entries of a cache, in order, without those under the keys ks
Rest(cache, ks) == SelectSeq(cache, LAMBDA e : e.key \notin ks)

\* C18: the cache never holds more than 200 entries; a set of a new key into
\* a cache of 200 removes exactly the entry whose key was inserted earliest
\* among those present and leaves every other entry as it was; any other set
\* removes nothing; a read that returns a value changes neither the entries
\* nor their order.
C18_BoundedFifo ==
    /\ [](Len(queryCache) <= CACHE_MAX)
    /\ [][CallStep("set") =>
            LET k == lastOp'.key
                before == KeysOf(queryCache)
                after == KeysOf(queryCache')
            IN  IF k \notin before /\ Cardinality(before) = CACHE_MAX
                THEN \E e \in before :
                        /\ after = (before \ {e}) \cup {k}
                        /\ \A x \in before : written[e].rank <= written[x].rank
                        /\ Rest(queryCache', {k}) = Rest(queryCache, {e})
                ELSE /\ after = before \cup {k}
                     /\ Rest(queryCache', {k}) = Rest(queryCache, {k})]_vars
    /\ [][(CallStep("get") /\ lastOp'.hit) => queryCache' = queryCache]_vars

\* the first key was set again later than every other entry, and is still the
\* one evicted by the 201st key
C18_Witness ==
    /\ lastOp.op = "set"
    /\ lastOp.key = DetailKey(ToString(CACHE_MAX + 1))
    /\ lastOp.gone = {DetailKey(ToString(1))}
    /\ written[DetailKey(ToString(1))].at > 1
    /\ Len(queryCache) = CACHE_MAX
    /\ DetailKey(ToString(2)) \in KeysOf(queryCache)

\* C19: when a route that records a download or creates or updates a review
\* answers with success, the cache holds no detail view of that paper.
C19_MutationInvalidates ==
    [][\A d \in Dets :
          (det[d].pc = "write" /\ det'[d].pc = "done" /\ det'[d].resp.success) =>
              DetailKey(ToString(PaperOf(det[d]))) \notin KeysOf(queryCache')]_vars

\* C21: the ranked id list a request uses never has more than 50 ids, whatever
\* the recommender answered, and no personalized response reports total > 50.
C21_AtMostFiftyIds ==
    \A r \in Reqs :
        /\ Len(req[r].recIds) <= maxRecs
        /\ (Done(r) /\ req[r].resp.status = 200 /\ PersonalizedAnswer(r)) =>
              req[r].resp.total <= maxRecs

\* the call was not skipped: it recorded its send time and called the sink
Sent(t) == log[t].pc # "free" /\ log[t].outcome # "skipped"

\* when a finished call returned
FinishedAt(t) == log[t].purgeAt - PurgeDelay

\* C22: every finished logSearch call, skipped or delivered, has a cleanup
\* scheduled 60 s after it returned; a cleanup removes the entries recorded
\* more than 120 s before it runs and no other entry, so never one that is
\* inside its 30 s window; an entry recorded less than 30 s ago is present.
C22_PurgeOnlyOld ==
    /\ [](\A t \in Tasks :
            log[t].pc = "done" =>
                /\ log[t].purgeAt >= log[t].startedAt + PurgeDelay
                /\ log[t].purgeAt <= now + PurgeDelay)
    /\ [][\A t \in Tasks :
            (~log[t].purged /\ log'[t].purged) =>
                /\ now >= FinishedAt(t) + (LOG_DEDUPE_TTL * 2)
                /\ DOMAIN recentSearchLog' =
                     {k \in DOMAIN recentSearchLog :
                         ~(now - recentSearchLog[k] > LOG_DEDUPE_TTL * 4)}
                /\ \A k \in DOMAIN recentSearchLog' :
                      recentSearchLog'[k] = recentSearchLog[k]
                /\ \A k \in DOMAIN recentSearchLog \ DOMAIN recentSearchLog' :
                      ~(now - recentSearchLog[k] < LOG_DEDUPE_TTL)]_vars
    /\ [](\A t \in Tasks :
            (Sent(t) /\ now - log[t].startedAt < LOG_DEDUPE_TTL) =>
                /\ log[t].key \in DOMAIN recentSearchLog
                /\ recentSearchLog[log[t].key] >= log[t].startedAt)

\* a cleanup removed the entry of an old call and kept that of a recent one
C22_Witness ==
    \E t, u \in Tasks :
        /\ log[t].purged /\ Sent(t) /\ log[t].key \notin DOMAIN recentSearchLog
        /\ Sent(u) /\ log[u].key \in DOMAIN recentSearchLog
        /\ now - recentSearchLog[log[u].key] < LOG_DEDUPE_TTL

\* C25: no suspension point separates the dedupe check from the recording of
\* the send time: of two calls with one key that start less than 30 s apart
\* at most one calls the sink, and every skipped call has a call with its key
\* that was sent less than 30 s before it, whatever calls are in flight.
C25_CheckAndSetAtomic ==
    \A a, b \in Tasks :
        /\ (/\ a < b /\ log[a].pc # "free" /\ log[b].pc # "free"
            /\ log[a].key = log[b].key
            /\ log[b].startedAt - log[a].startedAt < LOG_DEDUPE_TTL) =>
              (log[a].calls = 0 \/ log[b].calls = 0)
        /\ (log[b].pc # "free" /\ log[b].outcome = "skipped" /\ a = b) =>
              \E c \in Tasks :
                  /\ c < b /\ Sent(c) /\ log[c].key = log[b].key
                  /\ log[b].startedAt - log[c].startedAt < LOG_DEDUPE_TTL

\* three calls with one key at one instant, the first still waiting for the
\* sink: the other two were skipped
C25_Witness ==
    \E a, b, c \in Tasks :
        /\ a < b /\ b < c
        /\ log[a].pc \in {"fetch1", "fetch2"}
        /\ log[b].key = log[a].key /\ log[c].key = log[a].key
        /\ log[b].outcome = "skipped" /\ log[c].outcome = "skipped"
        /\ log[b].startedAt = log[a].startedAt /\ log[c].startedAt = log[a].startedAt

\* C26: the send time is recorded before delivery and stays when both
\* attempts fail: while less than 30 s have passed since a call that failed
\* started, its key is in the dedupe map, and every call with its key that
\* started in those 30 s was skipped without a call to the sink.
C26_FailedDeliveryNotRetried ==
    \A a \in Tasks :
        (log[a].pc = "done" /\ log[a].outcome = "failed") =>
            /\ log[a].calls = 2
            /\ now - log[a].startedAt < LOG_DEDUPE_TTL =>
                  /\ log[a].key \in DOMAIN recentSearchLog
                  /\ recentSearchLog[log[a].key] = log[a].startedAt
            /\ \A b \in Tasks :
                  (/\ a < b /\ log[b].pc # "free" /\ log[b].key = log[a].key
                   /\ log[b].startedAt - log[a].startedAt < LOG_DEDUPE_TTL) =>
                      (log[b].outcome = "skipped" /\ log[b].calls = 0)

\* a call failed twice; an identical call that started later, after the
\* failure and inside the window, was skipped
C26_Witness ==
    \E a, b \in Tasks :
        /\ a < b /\ log[a].outcome = "failed" /\ log[a].pc = "done"
        /\ log[b].key = log[a].key /\ log[b].outcome = "skipped"
        /\ log[b].startedAt > log[a].startedAt
        /\ log[b].startedAt >= FinishedAt(a)

\* the moves of a handler from one await to the next
StepOrder ==
    {<<"idle", "pool">>, <<"idle", "done">>, <<"pool", "recs">>,
     <<"pool", "query">>, <<"pool", "done">>, <<"recs", "query">>,
     <<"recs", "done">>, <<"query", "count">>, <<"query", "done">>,
     <<"count", "done">>}

\* C23: a request that missed the cache goes through cache lookup, recommender
\* call (mode decision), record query, reorder, cache write and response in
\* this order: no query is sent while the recommender call is pending, a
\* request without filters has its recommender reply before its first query,
\* nothing is answered before the last await, and a computed success response
\* is in the cache under the request's key when it is sent.
C23_StepOrder ==
    /\ [](\A r \in Reqs :
            Miss(r) =>
                /\ req[r].pc = "recs" =>
                      (req[r].queries = 0 /\ req[r].recCalls = 1
                       /\ req[r].recKind = "none")
                /\ (NoFilter(r) /\ req[r].queries >= 1) =>
                      (req[r].recCalls = 1 /\ req[r].recKind # "none")
                /\ req[r].pc \in {"pool", "recs", "query", "count"} =>
                      req[r].resp = NoResp
                /\ (Done(r) /\ req[r].resp.flag = "true") =>
                      req[r].resp.papers = Reorder(PagedIds(req[r]), req[r].recordset))
    /\ [][\A r \in Reqs :
            req'[r].pc # req[r].pc => <<req[r].pc, req'[r].pc>> \in StepOrder]_vars
    /\ [][\A r \in Reqs :
            Completes(r) =>
                \E i \in 1..Len(queryCache') :
                    /\ queryCache'[i].key = req[r].key
                    /\ queryCache'[i].data = req'[r].resp]_vars

\* a personalized page: one recommender call, then one query, then the entry
C23_Witness ==
    \E r \in Reqs :
        /\ Done(r) /\ Miss(r) /\ req[r].resp.flag = "true"
        /\ req[r].recCalls = 1 /\ req[r].queries = 1
        /\ req[r].recordset # req[r].resp.papers
        /\ CacheValid(queryCache, req[r].key, now)
        /\ CachedData(queryCache, req[r].key) = req[r].resp

\* the header is missing, malformed, or carries a token that does not verify
NoCredential(h) == h \notin {<<"Bearer", "t1">>, <<"Bearer", "t2">>}

\* C24: a request without a valid credential is handled as anonymous: its
\* search event is sent with user_id null under the key of 'anon', its
\* recommender call carries no user id, and it is never answered with an
\* error other than the 500 of a store failure.
C24_BadCredentialIsAnonymous ==
    \A r \in Reqs :
        (Started(r) /\ NoCredential(req[r].auth)) =>
            /\ req[r].task # 0 =>
                  /\ log[req[r].task].user_id = Null
                  /\ log[req[r].task].key[1] = "anon"
            /\ req[r].recCalls >= 1 => req[r].recUser = Null
            /\ (Done(r) /\ req[r].resp.status # 200) => req[r].storeErr

\* a token that does not verify, and still a personalized page
C24_Witness ==
    \E r \in Reqs :
        /\ req[r].auth = <<"Bearer", "bad">>
        /\ Done(r) /\ req[r].resp.status = 200 /\ req[r].resp.flag = "true"
        /\ req[r].recCalls = 1 /\ req[r].recUser = Null

\* the request is answered from the cache in this step
HitStep(r) == req[r].pc = "idle" /\ req'[r].pc = "done" /\ req'[r].hit

\* C27: a request that finds an unexpired entry under its key is answered
\* with the stored response as it is, and nothing else happens: no recommender
\* call, no query, no change of the cache (entries, order, stored times), no
\* search event; the entry it is answered from was written less than 60 s ago.
C27_HitHasNoEffect ==
    /\ [][\A r \in Reqs :
            HitStep(r) =>
                /\ queryCache' = queryCache
                /\ log' = log /\ recentSearchLog' = recentSearchLog
                /\ \E i \in 1..Len(queryCache) :
                      /\ queryCache[i].key = req'[r].key
                      /\ queryCache[i].data = req'[r].resp
                      /\ now - queryCache[i].timestamp < CACHE_TTL]_vars
    /\ [](\A r \in Reqs :
            req[r].hit =>
                /\ Done(r) /\ req[r].recCalls = 0 /\ req[r].queries = 0
                /\ req[r].recKind = "none" /\ req[r].task = 0
                /\ ~req[r].storeErr /\ req[r].resp.status = 200)

\* an entry read CACHE_TTL - 1 ms after it was written still bears the time
\* of its writing
C27_Witness ==
    \E r \in Reqs :
        /\ req[r].hit /\ Done(r)
        /\ \E i \in 1..Len(queryCache) :
              /\ queryCache[i].key = req[r].key
              /\ queryCache[i].data = req[r].resp
              /\ now - queryCache[i].timestamp = CACHE_TTL - 1

\* the mutation has responded with success
Responded(m) == det[m].pc = "done" /\ det[m].resp.success

\* C28: once POST /papers/:id/download or POST /papers/:id/review has
\* responded, no detail view of the paper in the cache was computed from the
\* store as it was before the mutation: a cached view shows at least the
\* download recorded, or the caller's review with the rating submitted.
C28_InvalidationNotUndone ==
    \A m \in Dets :
        (Responded(m) /\ det[m].route \in {PostDownload, PostReview}) =>
            \A i \in 1..Len(queryCache) :
                queryCache[i].key = det[m].key =>
                    IF det[m].route = PostDownload
                    THEN queryCache[i].data.paper.Download_Count >= 1
                    ELSE \E rv \in queryCache[i].data.reviews :
                            /\ rv.Researcher_ID = DetUser
                            /\ rv.Rating = det[m].rating

\* C29: the Review table never holds two reviews of one paper by one
\* researcher, whatever review submissions were made and however they
\* interleaved.
C29_OneReviewPerPair ==
    \A i, j \in 1..Len(Review) :
        (/\ Review[i].Paper_ID = Review[j].Paper_ID
         /\ Review[i].Researcher_ID = Review[j].Researcher_ID) => i = j

\* C30: field names stay unique: no two rows of the Field table have the same
\* name, after any sequence of POST /fields and PUT /fields/:id.
C30_FieldNamesUnique ==
    \A i, j \in 1..Len(Field) :
        Field[i].Field_Name = Field[j].Field_Name => i = j

====
